---- MODULE Spec2Model ----
(***************************************************************************)
(* Resume-Checker-AI: the text functions of pdf_processor.py, the          *)
(* per-request vector collection of vector_store.py, the retry helper and  *)
(* the analysis pipeline of analyzer.py, the two request handlers          *)
(* (main.py analyze_resume, gui_app.py AnalysisWorker) and the main window *)
(* of the desktop GUI that starts the workers.                             *)
(*                                                                         *)
(* A text is a sequence of characters; a character is a one-element name.  *)
(***************************************************************************)
EXTENDS Integers, Sequences, FiniteSets, TLC

\* ------------------------------------------------------------------ bounds
MaxTextLen == 4
MaxChunk == 3
MaxPages == 2
MaxPageLen == 2
MaxSkills == 2
MaxDocs == 2
MaxRuns == 2

\* ------------------------------------------------------- characters, texts
NL == "\n"
SP == " "
NonAsciiChar == "u00e9"
Alphabet == {"a", "b", SP, NL, NonAsciiChar}

IsAscii(c) == c # NonAsciiChar
IsSpace(c) == c \in {SP, NL}

TextsUpTo(n) == UNION {[1..k -> Alphabet] : k \in 0..n}

Min(a, b) == IF a < b THEN a ELSE b

RECURSIVE Concat(_)
Concat(ss) == IF ss = <<>> THEN <<>> ELSE Head(ss) \o Concat(Tail(ss))

RECURSIVE Filter(_, _)
Filter(s, keep) ==
  IF s = <<>> THEN <<>>
  ELSE (IF Head(s) \in keep THEN <<Head(s)>> ELSE <<>>) \o Filter(Tail(s), keep)

\* --------------------------------------------------------- pdf_processor.py
\* A document is unreadable (PdfReader raises) or a sequence of pages; the
\* extraction of a page yields its text (possibly empty) or raises.
Page(okp, t) == [ok |-> okp, text |-> t]
Pdf(readable, pages) == [readable |-> readable, pages |-> pages]

PageAlphabet == {"a", NL}
PageValues(n) ==
  {Page(TRUE, t) : t \in UNION {[1..k -> PageAlphabet] : k \in 0..n}}
  \cup {Page(FALSE, <<>>)}
PdfsUpTo(p, n) ==
  {Pdf(FALSE, <<>>)} \cup {Pdf(TRUE, ps) : ps \in UNION {[1..k -> PageValues(n)] : k \in 0..p}}

PdfResult(okr, t, n, e) == [ok |-> okr, text |-> t, page_count |-> n, error |-> e]
PdfError == PdfResult(FALSE, <<>>, 0, "Error reading PDF")

\* text += page.extract_text() + "\n"
RECURSIVE PagesText(_)
PagesText(pages) ==
  IF pages = <<>> THEN <<>>
  ELSE Head(pages).text \o <<NL>> \o PagesText(Tail(pages))

RECURSIVE PagesTextNoSep(_)
PagesTextNoSep(pages) ==
  IF pages = <<>> THEN <<>>
  ELSE Head(pages).text \o PagesTextNoSep(Tail(pages))

PdfRaises(file_content) ==
  \/ ~file_content.readable
  \/ \E i \in 1..Len(file_content.pages) : ~file_content.pages[i].ok

extract_text_from_pdf_skipcount(file_content) ==
  IF PdfRaises(file_content) THEN PdfError
  ELSE PdfResult(TRUE, PagesText(file_content.pages),
                 Cardinality({i \in 1..Len(file_content.pages) :
                                  file_content.pages[i].text # <<>>}), "")

extract_text_from_pdf(file_content) ==
  IF PdfRaises(file_content) THEN PdfError
  ELSE PdfResult(TRUE, PagesText(file_content.pages), Len(file_content.pages), "")

\* text.encode("ascii", "ignore").decode()
AsciiOnly(text) == Filter(text, {c \in Alphabet : IsAscii(c)})

\* str.split("\n"): always at least one piece
RECURSIVE SplitNL(_)
SplitNL(text) ==
  IF \A i \in 1..Len(text) : text[i] # NL THEN <<text>>
  ELSE LET i == CHOOSE j \in 1..Len(text) :
                  text[j] = NL /\ \A k \in 1..(j - 1) : text[k] # NL
       IN <<SubSeq(text, 1, i - 1)>> \o SplitNL(SubSeq(text, i + 1, Len(text)))

RECURSIVE LStrip(_)
LStrip(s) == IF s # <<>> /\ IsSpace(Head(s)) THEN LStrip(Tail(s)) ELSE s

RECURSIVE RStrip(_)
RStrip(s) ==
  IF s # <<>> /\ IsSpace(s[Len(s)]) THEN RStrip(SubSeq(s, 1, Len(s) - 1)) ELSE s

\* str.strip()
Strip(s) == RStrip(LStrip(s))

\* "\n".join(lines)
RECURSIVE JoinNL(_)
JoinNL(lines) ==
  IF lines = <<>> THEN <<>>
  ELSE IF Len(lines) = 1 THEN Head(lines)
  ELSE Head(lines) \o <<NL>> \o JoinNL(Tail(lines))

RECURSIVE StripNonBlank(_)
StripNonBlank(lines) ==
  IF lines = <<>> THEN <<>>
  ELSE (IF Strip(Head(lines)) # <<>> THEN <<Strip(Head(lines))>> ELSE <<>>)
       \o StripNonBlank(Tail(lines))

clean_text_lstrip(text) ==
  LET RECURSIVE L(_)
      L(lines) == IF lines = <<>> THEN <<>>
                  ELSE (IF Strip(Head(lines)) # <<>> THEN <<LStrip(Head(lines))>> ELSE <<>>)
                       \o L(Tail(lines))
  IN JoinNL(L(SplitNL(AsciiOnly(text))))

clean_text(text) == JoinNL(StripNonBlank(SplitNL(AsciiOnly(text))))

\* for i in range(0, len(text), chunk_size): chunks.append(text[i : i + chunk_size])
RECURSIVE ChunkFrom(_, _, _)
ChunkFrom(text, chunk_size, i) ==
  IF i >= Len(text) THEN <<>>
  ELSE <<SubSeq(text, i + 1, Min(i + chunk_size, Len(text)))>>
       \o ChunkFrom(text, chunk_size, i + chunk_size)

RECURSIVE ChunkFromOverlap(_, _, _)
ChunkFromOverlap(text, chunk_size, i) ==
  IF i >= Len(text) THEN <<>>
  ELSE <<SubSeq(text, i + 1, Min(i + chunk_size, Len(text)))>>
       \o ChunkFromOverlap(text, chunk_size, i + (IF chunk_size > 1 THEN chunk_size - 1 ELSE 1))

chunk_text_overlap(text, chunk_size) == ChunkFromOverlap(text, chunk_size, 0)

chunk_text(text, chunk_size) == ChunkFrom(text, chunk_size, 0)

DefaultChunkSize == 500

\* ------------------------------------------------------------------- state
VARIABLES
  call,             \* the text function applied on its own and its arguments
  ret,              \* its return value
  mode,             \* "web": main.py analyze_resume, "gui": AnalysisWorker
  file,             \* the uploaded document
  vs_client,        \* vector_store.client is not None
  an_client,        \* analyzer.client is not None
  pc,               \* position of each coroutine
  fr,               \* _call_gemini_with_retry frame of each coroutine
  loop_current,     \* the coroutine the event-loop thread is executing
  ready,            \* the event loop's FIFO of ready tasks
  chunks,           \* chunk_text(clean_text(raw_text))
  meta,             \* raw_text and page_count of the request
  store,            \* chroma client: collection name -> documents
  collection_name,  \* name drawn by create_collection_from_chunks
  embedded,         \* embed_content calls made by collection.add
  task_out,         \* outcome of the two gathered tasks
  gathered,         \* the gather future: pending, result or exception
  extracted,        \* analyze: extracted
  heuristics,       \* analyze: heuristics
  verify,           \* verify_skills frame: phase, skills left, results, lookups
  verified,         \* hard_skills_verified, soft_skills_verified
  final_report,     \* analyze: final_report
  exc,              \* exception propagating out of the handler body
  response,         \* what the handler answered
  stage_log,        \* order in which the stages of analyze happened
  reqs,             \* concurrent /analyze requests on the shared chroma client
  gui               \* MainWindow: buttons, self.worker, the worker threads

reqVars == <<mode, file, vs_client, an_client, pc, fr, loop_current, ready, chunks,
             meta, store, collection_name, embedded, task_out, gathered, extracted,
             heuristics, verify, verified, final_report, exc, response, stage_log,
             reqs, gui>>
vars == <<call, ret, mode, file, vs_client, an_client, pc, fr, loop_current, ready,
          chunks, meta, store, collection_name, embedded, task_out, gathered,
          extracted, heuristics, verify, verified, final_report, exc, response,
          stage_log, reqs, gui>>
\* what a request never changes: its inputs, the module clients, and the
\* state of the other requests and of the desktop window
inputVars == <<call, ret, mode, file, vs_client, an_client, reqs, gui>>
prepVars == <<chunks, meta, collection_name, embedded>>
\* the state of the single request that `Spec` follows, the store apart
pipelineVars == <<call, ret, mode, file, vs_client, an_client, pc, fr, loop_current,
                  ready, chunks, meta, collection_name, embedded, task_out, gathered,
                  extracted, heuristics, verify, verified, final_report, exc,
                  response, stage_log>>

\* ------------------------------------------------------------------ values
Tasks == {"main", "extract", "heur"}
Children == {"extract", "heur"}
Names == {"resume_1", "resume_2"}
Skills == {"python", "sql"}

SeqsUpTo(S, n) == UNION {[1..k -> S] : k \in 0..n}

\* a value travelling through the pipeline: an LLM response or a list of passages
Val(kind, hard, soft, docs) ==
  [kind |-> kind, hard_skills |-> hard, soft_skills |-> soft, docs |-> docs]
NoValue == Val("none", <<>>, <<>>, <<>>)
BadJson == Val("bad", <<>>, <<>>, <<>>)
NonDict == Val("nondict", <<>>, <<>>, <<>>)
SomeJson == Val("json", <<>>, <<>>, <<>>)
\* shapes of a parsed report: SomeJson is an object with exactly the four
\* fields of AnalysisResponse, ExtraJson has a further key, InvalidJson lacks
\* a field or holds one of the wrong type
ExtraJson == Val("extra", <<>>, <<>>, <<>>)
InvalidJson == Val("invalid", <<>>, <<>>, <<>>)

SkillResponses ==
  {BadJson, NonDict} \cup
  {Val("skills", h, s, <<>>) : <<h, s>> \in
      {p \in SeqsUpTo(Skills, MaxSkills) \X SeqsUpTo(Skills, MaxSkills) :
          Len(p[1]) + Len(p[2]) <= MaxSkills}}
HeurResponses == {BadJson, SomeJson}
ReportResponses == {BadJson, SomeJson, ExtraJson, InvalidJson, NonDict}

ResourceExhausted == "ResourceExhausted"
ServiceUnavailable == "ServiceUnavailable"
OtherError == "OtherError"
Retryable == {ResourceExhausted, ServiceUnavailable}
Outcomes == {"ok", ResourceExhausted, ServiceUnavailable, OtherError}

NoExc == [raised |-> FALSE, msg |-> <<>>, stage |-> "none"]
Raised(msg, stage) == [raised |-> TRUE, msg |-> msg, stage |-> stage]

NoResponse == [sent |-> FALSE, status |-> "none", detail |-> <<>>, body |-> NoValue]

NoCollection == [exists |-> FALSE, docs |-> <<>>, ids |-> <<>>]
NoVerify == [phase |-> "none", todo |-> <<>>, results |-> <<>>, lookups |-> <<>>]
Pending == [state |-> "pending", value |-> NoValue, error |-> <<>>]

Requests == {1, 2}
NoRequest == [pc |-> "none", chunks |-> <<>>, collection_name |-> "", lookups |-> {}]
NoRequests == [r \in Requests |-> NoRequest]

\* gui_app.py 83-92, 136-172: the window as setup_ui leaves it
Runs == 1..MaxRuns
NewWindow ==
  [analyze_btn |-> TRUE, select_btn |-> TRUE, progress_bar |-> FALSE,
   pdf_path |-> FALSE, jd_text |-> FALSE, worker |-> 0,
   thread |-> [k \in Runs |-> "none"], emitted |-> [k \in Runs |-> <<>>],
   events |-> <<>>, message |-> "none"]

NoCall == [fn |-> "none", text |-> <<>>, chunk_size |-> 0, pdf |-> Pdf(TRUE, <<>>)]
NoRet == [done |-> FALSE, chunks |-> <<>>, text |-> <<>>, pdf |-> PdfError]

\* ------------------------------------------- analyzer._call_gemini_with_retry
max_retries == 3
InitialDelay == 2

NoFrame ==
  [status |-> "idle", func |-> "none", arg |-> "", attempt |-> 0, delay |-> 0,
   outs |-> <<>>, waits |-> <<>>, result |-> NoValue, err |-> ""]

\* entry of the helper: attempt = 0, delay = 2, about to call func
NewFrame(func, arg) ==
  [status |-> "calling", func |-> func, arg |-> arg, attempt |-> 0,
   delay |-> InitialDelay, outs |-> <<>>, waits |-> <<>>, result |-> NoValue,
   err |-> ""]

AfterCall_no_limit(f, o, v) ==
  LET f1 == [f EXCEPT !.outs = Append(@, o)]
  IN IF o = "ok" THEN [f1 EXCEPT !.status = "returned", !.result = v]
     ELSE IF o \in Retryable
          THEN [f1 EXCEPT !.status = "sleeping", !.waits = Append(@, f.delay)]
          ELSE [f1 EXCEPT !.status = "raised", !.err = o]

AfterCall_retry_all(f, o, v) ==
  LET f1 == [f EXCEPT !.outs = Append(@, o)]
  IN IF o = "ok" THEN [f1 EXCEPT !.status = "returned", !.result = v]
     ELSE IF f.attempt = max_retries
          THEN [f1 EXCEPT !.status = "raised", !.err = o]
          ELSE [f1 EXCEPT !.status = "sleeping", !.waits = Append(@, f.delay)]

\* one pass of the loop body, up to and including the call of time.sleep:
\* o is what func did (returned v, or raised o)
AfterCall(f, o, v) ==
  LET f1 == [f EXCEPT !.outs = Append(@, o)]
  IN IF o = "ok" THEN [f1 EXCEPT !.status = "returned", !.result = v]
     ELSE IF o \in Retryable
          THEN IF f.attempt = max_retries
               THEN [f1 EXCEPT !.status = "raised", !.err = o]
               ELSE [f1 EXCEPT !.status = "sleeping", !.waits = Append(@, f.delay)]
          ELSE [f1 EXCEPT !.status = "raised", !.err = o]

AfterSleep_linear(f) ==
  IF f.attempt + 1 > max_retries
  THEN [f EXCEPT !.status = "returned", !.attempt = @ + 1, !.delay = @ + 2]
  ELSE [f EXCEPT !.status = "calling", !.attempt = @ + 1, !.delay = @ + 2]

\* time.sleep returns: delay *= 2 and the next pass of the loop (a loop that
\* runs out returns None)
AfterSleep(f) ==
  IF f.attempt + 1 > max_retries
  THEN [f EXCEPT !.status = "returned", !.attempt = @ + 1, !.delay = @ * 2]
  ELSE [f EXCEPT !.status = "calling", !.attempt = @ + 1, !.delay = @ * 2]

\* ---------------------------------------------------------- vector_store.py
\* vector_store.py 50-53: chroma_client.create_collection(name)
create_collection(st, name) ==
  [st EXCEPT ![name] = [exists |-> TRUE, docs |-> <<>>, ids |-> <<>>]]

\* vector_store.py 55: the id f"id_{i}" is the prefix followed by the number
IdOf(i) == <<"id_", i>>

ChunkIds_len(cs) == [k \in 1..Len(cs) |-> IdOf(Len(cs))]

\* vector_store.py 55: ids = [f"id_{i}" for i in range(len(chunks))]
ChunkIds(cs) == [k \in 1..Len(cs) |-> IdOf(k - 1)]

\* vector_store.py 56-59: collection.add stores documents[k] under ids[k]
collection_add(st, name, documents, ids) ==
  [st EXCEPT ![name].docs = documents, ![name].ids = ids]

delete_collection_all(st, name) == [n \in DOMAIN st |-> NoCollection]

\* vector_store.py 69-70: chroma_client.delete_collection(collection_name)
delete_collection(st, name) == [st EXCEPT ![name] = NoCollection]

\* chroma raises when asked to delete a collection it does not hold
DeleteRaises_always(st, name) == TRUE

DeleteRaises(st, name) == ~st[name].exists

\* results["documents"][0] of collection.query(n_results): the n nearest
\* passages, whichever the embedding makes them
RECURSIVE Nearest(_, _)
Nearest(docs, n) ==
  IF n = 0 \/ docs = <<>> THEN {<<>>}
  ELSE UNION {{<<docs[i]>> \o rest :
                 rest \in Nearest([j \in 1..(Len(docs) - 1) |->
                                     IF j < i THEN docs[j] ELSE docs[j + 1]], n - 1)} :
              i \in 1..Len(docs)}

query_similar_threshold(collection, query_text, n_results) ==
  {Val("docs", <<>>, <<>>, ds) : ds \in Nearest(collection.docs, n_results) \cup {<<>>}}

\* vector_store.py 62-67: results["documents"][0] for the one query text
query_similar(collection, query_text, n_results) ==
  {Val("docs", <<>>, <<>>, ds) : ds \in Nearest(collection.docs, n_results)}

\* what the wrapped function of a frame can return
ResultsOf(f) ==
  CASE f.func = "extract_skills" -> SkillResponses
    [] f.func = "analyze_recruiter_heuristics" -> HeurResponses
    [] f.func = "generate_report" -> ReportResponses
    [] f.func = "query_similar" -> query_similar(store[collection_name], f.arg, 1)

\* ---------------------------------------------------- the text functions
RequestIdle ==
  /\ pc = [t \in Tasks |-> "none"]
  /\ fr = [t \in Tasks |-> NoFrame]
  /\ ready = <<>>
  /\ chunks = <<>>
  /\ meta = [raw_text |-> <<>>, page_count |-> 0]
  /\ store = [n \in Names |-> NoCollection]
  /\ collection_name = ""
  /\ embedded = 0
  /\ task_out = [t \in Children |-> Pending]
  /\ gathered = Pending
  /\ extracted = NoValue
  /\ heuristics = NoValue
  /\ verify = NoVerify
  /\ verified = [hard |-> <<>>, soft |-> <<>>]
  /\ final_report = NoValue
  /\ exc = NoExc
  /\ response = NoResponse
  /\ stage_log = <<>>

TextCalls ==
  {[fn |-> "chunk_text", text |-> t, chunk_size |-> n, pdf |-> Pdf(TRUE, <<>>)] :
      t \in TextsUpTo(MaxTextLen), n \in 1..MaxChunk}
  \cup {[fn |-> "clean_text", text |-> t, chunk_size |-> 0, pdf |-> Pdf(TRUE, <<>>)] :
      t \in TextsUpTo(MaxTextLen)}
  \cup {[fn |-> "extract_text_from_pdf", text |-> <<>>, chunk_size |-> 0, pdf |-> d] :
      d \in PdfsUpTo(MaxPages, MaxPageLen)}

InitText ==
  /\ call \in TextCalls
  /\ ret = NoRet
  /\ mode = "none"
  /\ file = Pdf(TRUE, <<>>)
  /\ vs_client = TRUE
  /\ an_client = TRUE
  /\ loop_current = "idle"
  /\ RequestIdle
  /\ reqs = NoRequests
  /\ gui = NewWindow

CallChunkText ==
  /\ call.fn = "chunk_text" /\ ~ret.done
  /\ ret' = [ret EXCEPT !.done = TRUE, !.chunks = chunk_text(call.text, call.chunk_size)]
  /\ UNCHANGED <<call, reqVars>>

CallCleanText ==
  /\ call.fn = "clean_text" /\ ~ret.done
  /\ ret' = [ret EXCEPT !.done = TRUE, !.text = clean_text(call.text)]
  /\ UNCHANGED <<call, reqVars>>

CallExtractText ==
  /\ call.fn = "extract_text_from_pdf" /\ ~ret.done
  /\ ret' = [ret EXCEPT !.done = TRUE, !.pdf = extract_text_from_pdf(call.pdf)]
  /\ UNCHANGED <<call, reqVars>>

NextText == CallChunkText \/ CallCleanText \/ CallExtractText

SpecText == InitText /\ [][NextText]_vars

\* ------------------------------------------------------ the request handlers
SampleFiles ==
  { Pdf(TRUE, <<Page(TRUE, <<"a">>), Page(TRUE, <<>>), Page(TRUE, <<NonAsciiChar, "b">>)>>),
    Pdf(TRUE, <<Page(TRUE, <<NonAsciiChar>>), Page(TRUE, <<SP>>)>>),
    Pdf(TRUE, <<Page(TRUE, <<"a">>), Page(FALSE, <<>>)>>),
    Pdf(FALSE, <<>>) }

Init ==
  /\ call = NoCall
  /\ ret = NoRet
  /\ mode \in {"web", "gui"}
  /\ file \in SampleFiles
  /\ vs_client \in BOOLEAN
  /\ an_client \in BOOLEAN
  /\ pc = [t \in Tasks |-> IF t = "main" THEN "prepare" ELSE "none"]
  /\ fr = [t \in Tasks |-> NoFrame]
  /\ loop_current = "main"
  /\ ready = <<>>
  /\ chunks = <<>>
  /\ meta = [raw_text |-> <<>>, page_count |-> 0]
  /\ store = [n \in Names |-> NoCollection]
  /\ collection_name = ""
  /\ embedded = 0
  /\ task_out = [t \in Children |-> Pending]
  /\ gathered = Pending
  /\ extracted = NoValue
  /\ heuristics = NoValue
  /\ verify = NoVerify
  /\ verified = [hard |-> <<>>, soft |-> <<>>]
  /\ final_report = NoValue
  /\ exc = NoExc
  /\ response = NoResponse
  /\ stage_log = <<>>
  /\ reqs = NoRequests
  /\ gui = NewWindow

At(t, p) == loop_current = t /\ pc[t] = p

\* main.py 39-54, gui_app.py 43-64: read, extract, clean, chunk, metadata
Prepare ==
  /\ At("main", "prepare")
  /\ LET r == extract_text_from_pdf(file)
         cs == IF r.ok THEN chunk_text(clean_text(r.text), DefaultChunkSize) ELSE <<>>
     IN /\ meta' = [raw_text |-> r.text, page_count |-> r.page_count]
        /\ chunks' = cs
        /\ IF ~r.ok
           THEN /\ exc' = Raised(IF mode = "gui"
                                 THEN <<"Failed to extract text from PDF: ", r.error>>
                                 ELSE <<r.error>>, "prepare")
                /\ pc' = [pc EXCEPT !["main"] = "respond"]
           ELSE IF cs = <<>>
           THEN /\ exc' = Raised(IF mode = "gui"
                                 THEN <<"Could not extract text from PDF (empty chunks).">>
                                 ELSE <<"400: ", "Could not extract text from PDF.">>,
                                 "prepare")
                /\ pc' = [pc EXCEPT !["main"] = "respond"]
           ELSE /\ exc' = exc
                /\ pc' = [pc EXCEPT !["main"] = "create"]
  /\ UNCHANGED <<inputVars, fr, loop_current, ready,
                 store, collection_name, embedded, task_out, gathered, extracted,
                 heuristics, verify, verified, final_report, response, stage_log>>

\* vector_store.py 49-53: a fresh uuid name, chroma_client.create_collection
CreateCollection ==
  /\ At("main", "create")
  /\ \E n \in Names :
       /\ ~store[n].exists
       /\ store' = create_collection(store, n)
       /\ collection_name' = n
  /\ embedded' = 0
  /\ pc' = [pc EXCEPT !["main"] = "add"]
  /\ UNCHANGED <<inputVars, fr, loop_current, ready,
                 chunks, meta, task_out, gathered, extracted, heuristics, verify,
                 verified, final_report, exc, response, stage_log>>

\* the exception of create_collection_from_chunks as each handler sees it
CreateError(msg) ==
  Raised(IF mode = "gui" THEN <<"Failed to initialize Vector Store: ">> \o msg ELSE msg,
         "create")

\* vector_store.py 55-60, 24-36: collection.add embeds the chunks one by one
\* and then stores them under id_0 .. id_{n-1}; an exception leaves
\* create_collection_from_chunks before the handler's try/finally is entered
AddDocuments ==
  /\ At("main", "add")
  /\ IF ~vs_client
     THEN /\ exc' = CreateError(<<"Gemini Client not initialized. Check GOOGLE_API_KEY.">>)
          /\ pc' = [pc EXCEPT !["main"] = "respond"]
          /\ UNCHANGED <<embedded, store>>
     ELSE \E o \in {"ok", OtherError} :
            IF o = "ok"
            THEN /\ embedded' = embedded + 1
                 /\ exc' = exc
                 /\ IF embedded + 1 = Len(chunks)
                    THEN /\ store' = collection_add(store, collection_name, chunks,
                                                     ChunkIds(chunks))
                         /\ pc' = [pc EXCEPT !["main"] = "analyze"]
                    ELSE UNCHANGED <<store, pc>>
            ELSE /\ exc' = CreateError(<<o>>)
                 /\ pc' = [pc EXCEPT !["main"] = "respond"]
                 /\ UNCHANGED <<embedded, store>>
  /\ UNCHANGED <<inputVars, fr, loop_current, ready,
                 chunks, meta, collection_name, task_out, gathered, extracted,
                 heuristics, verify, verified, final_report, response, stage_log>>

\* analyzer.py 268-273: the two coroutines are created, gather wraps them in
\* tasks (scheduled in argument order) and analyze suspends on the gather
AnalyzeStart ==
  /\ At("main", "analyze")
  /\ pc' = [t \in Tasks |-> IF t = "main" THEN "gather" ELSE "start"]
  /\ ready' = ready \o <<"extract", "heur">>
  /\ loop_current' = "idle"
  /\ UNCHANGED <<inputVars, prepVars, fr, store, task_out, gathered, extracted,
                 heuristics, verify, verified, final_report, exc, response, stage_log>>

\* the event loop takes the next ready task; it can do so only when the
\* running coroutine has suspended or finished
Dispatch ==
  /\ loop_current = "idle"
  /\ ready # <<>>
  /\ loop_current' = Head(ready)
  /\ ready' = Tail(ready)
  /\ UNCHANGED <<inputVars, prepVars, pc, fr, store, task_out, gathered, extracted,
                 heuristics, verify, verified, final_report, exc, response, stage_log>>

FuncOf(t) == IF t = "extract" THEN "extract_skills" ELSE "analyze_recruiter_heuristics"

\* the value the except branch of a gathered coroutine returns
DefaultOf(t) ==
  IF t = "extract" THEN Val("skills", <<>>, <<>>, <<>>) ELSE Val("default", <<>>, <<>>, <<>>)

\* a gathered task ends: its done-callback resolves the gather future on the
\* first exception or when every child has finished, which wakes analyze
ChildDone(t, out) ==
  /\ task_out' = [task_out EXCEPT ![t] = out]
  /\ pc' = [pc EXCEPT ![t] = "done"]
  /\ fr' = [fr EXCEPT ![t] = NoFrame]
  /\ loop_current' = "idle"
  /\ stage_log' = Append(stage_log, t)
  /\ IF gathered.state = "pending" /\ out.state = "exception"
     THEN /\ gathered' = out
          /\ ready' = Append(ready, "main")
     ELSE IF gathered.state = "pending"
             /\ \A u \in Children \ {t} : task_out[u].state = "result"
     THEN /\ gathered' = [state |-> "result", value |-> NoValue, error |-> <<>>]
          /\ ready' = Append(ready, "main")
     ELSE UNCHANGED <<gathered, ready>>

\* analyzer.py 47-48, 118-119 and the entry of the retry helper (59-60, 184-185)
TaskStart(t) ==
  /\ At(t, "start")
  /\ IF ~an_client
     THEN ChildDone(t, [state |-> "exception", value |-> NoValue,
                        error |-> <<"Gemini Client not initialized.">>])
     ELSE /\ fr' = [fr EXCEPT ![t] = NewFrame(FuncOf(t), "")]
          /\ pc' = [pc EXCEPT ![t] = "call"]
          /\ UNCHANGED <<loop_current, ready, task_out, gathered, stage_log>>
  /\ UNCHANGED <<inputVars, prepVars, store, extracted, heuristics, verify, verified,
                 final_report, exc, response>>

\* analyzer.py 29-40: one attempt of the helper; func is called synchronously
HelperCall(t) ==
  /\ loop_current = t
  /\ fr[t].status = "calling"
  /\ \E o \in Outcomes :
       \E v \in (IF o = "ok" THEN ResultsOf(fr[t]) ELSE {NoValue}) :
         fr' = [fr EXCEPT ![t] = AfterCall(@, o, v)]
  /\ UNCHANGED <<inputVars, prepVars, pc, loop_current, ready, store, task_out,
                 gathered, extracted, heuristics, verify, verified, final_report, exc,
                 response, stage_log>>

\* analyzer.py 36-37: time.sleep(delay) returns; the thread was held meanwhile
HelperWake(t) ==
  /\ loop_current = t
  /\ fr[t].status = "sleeping"
  /\ fr' = [fr EXCEPT ![t] = AfterSleep(@)]
  /\ UNCHANGED <<inputVars, prepVars, pc, loop_current, ready, store, task_out,
                 gathered, extracted, heuristics, verify, verified, final_report, exc,
                 response, stage_log>>

\* analyzer.py 68-71, 193-196: json.loads of the response, or the default
TaskFinish(t) ==
  /\ At(t, "call")
  /\ fr[t].status \in {"returned", "raised"}
  /\ ChildDone(t, [state |-> "result",
                   value |-> IF fr[t].status = "returned" /\ fr[t].result.kind # "bad"
                             THEN fr[t].result ELSE DefaultOf(t),
                   error |-> <<>>])
  /\ UNCHANGED <<inputVars, prepVars, store, extracted, heuristics, verify, verified,
                 final_report, exc, response>>

\* analyzer.py 273: the gather resumes analyze with both results or raises
GatherResume ==
  /\ At("main", "gather")
  /\ IF gathered.state = "exception"
     THEN /\ exc' = Raised(gathered.error, "gather")
          /\ pc' = [pc EXCEPT !["main"] = "finally"]
          /\ UNCHANGED <<extracted, heuristics>>
     ELSE /\ extracted' = task_out["extract"].value
          /\ heuristics' = task_out["heur"].value
          /\ pc' = [pc EXCEPT !["main"] = "verify_hard"]
          /\ exc' = exc
  /\ UNCHANGED <<inputVars, prepVars, fr, loop_current, ready, store, task_out,
                 gathered, verify, verified, final_report, response, stage_log>>

\* analyzer.py 94-105: the report entry of one skill from its matches
verify_result_always_found(skill, matches) ==
  [skill |-> skill, found |-> TRUE,
   evidence |-> IF matches # <<>> THEN matches[1] ELSE <<>>]

verify_result(skill, matches) ==
  [skill |-> skill, found |-> matches # <<>>,
   evidence |-> IF matches # <<>> THEN matches[1] ELSE <<>>]

SkillsOf(phase) == IF phase = "hard" THEN extracted.hard_skills ELSE extracted.soft_skills

\* analyzer.py 276-277 and 77: extracted.get(...) and the entry of verify_skills
VerifyBegin(phase) ==
  /\ At("main", IF phase = "hard" THEN "verify_hard" ELSE "verify_soft")
  /\ IF extracted.kind = "nondict"
     THEN /\ exc' = Raised(<<"AttributeError: 'list' object has no attribute 'get'">>,
                           "verify")
          /\ pc' = [pc EXCEPT !["main"] = "finally"]
          /\ UNCHANGED verify
     ELSE /\ verify' = [phase |-> phase, todo |-> SkillsOf(phase), results |-> <<>>,
                        lookups |-> <<>>]
          /\ pc' = [pc EXCEPT !["main"] = "verify_loop"]
          /\ exc' = exc
  /\ UNCHANGED <<inputVars, prepVars, fr, loop_current, ready, store, task_out,
                 gathered, extracted, heuristics, verified, final_report, response,
                 stage_log>>

VerifyNext_skip_soft ==
  /\ At("main", "verify_loop")
  /\ IF verify.todo = <<>>
     THEN /\ verified' = [verified EXCEPT ![verify.phase] = verify.results]
          /\ pc' = [pc EXCEPT !["main"] = "report"]
          /\ UNCHANGED <<fr, stage_log>>
     ELSE /\ fr' = [fr EXCEPT !["main"] = NewFrame("query_similar", Head(verify.todo))]
          /\ pc' = [pc EXCEPT !["main"] = "verify_query"]
          /\ stage_log' = Append(stage_log, verify.phase)
          /\ UNCHANGED verified
  /\ UNCHANGED <<inputVars, prepVars, loop_current, ready, store, task_out, gathered,
                 extracted, heuristics, verify, final_report, exc, response>>

\* analyzer.py 78-89, 106: the next skill's lookup enters the retry helper, or
\* the loop is over and verify_skills returns
VerifyNext ==
  /\ At("main", "verify_loop")
  /\ IF verify.todo = <<>>
     THEN /\ verified' = [verified EXCEPT ![verify.phase] = verify.results]
          /\ pc' = [pc EXCEPT !["main"] =
                       IF verify.phase = "hard" THEN "verify_soft" ELSE "report"]
          /\ UNCHANGED <<fr, stage_log>>
     ELSE /\ fr' = [fr EXCEPT !["main"] = NewFrame("query_similar", Head(verify.todo))]
          /\ pc' = [pc EXCEPT !["main"] = "verify_query"]
          /\ stage_log' = Append(stage_log, verify.phase)
          /\ UNCHANGED verified
  /\ UNCHANGED <<inputVars, prepVars, loop_current, ready, store, task_out, gathered,
                 extracted, heuristics, verify, final_report, exc, response>>

VerifyRecord_abort ==
  /\ At("main", "verify_query")
  /\ fr["main"].status \in {"returned", "raised"}
  /\ LET skill == Head(verify.todo)
         returned == fr["main"].status = "returned"
         matches == IF returned THEN fr["main"].result.docs ELSE <<>>
     IN /\ verify' = [verify EXCEPT
                        !.todo = Tail(@),
                        !.results = Append(@, verify_result(skill, matches)),
                        !.lookups = Append(@, [skill |-> skill, returned |-> returned,
                                               docs |-> matches])]
        /\ exc' = IF returned THEN exc ELSE Raised(<<fr["main"].err>>, "verify")
        /\ pc' = [pc EXCEPT !["main"] = IF returned THEN "verify_loop" ELSE "finally"]
  /\ fr' = [fr EXCEPT !["main"] = NoFrame]
  /\ UNCHANGED <<inputVars, prepVars, loop_current, ready, store, task_out, gathered,
                 extracted, heuristics, verified, final_report, response, stage_log>>

\* analyzer.py 90-105: matches of the lookup ([] when it raised, whatever the
\* exception), one result, and on to the next skill
VerifyRecord ==
  /\ At("main", "verify_query")
  /\ fr["main"].status \in {"returned", "raised"}
  /\ LET skill == Head(verify.todo)
         returned == fr["main"].status = "returned"
         matches == IF returned THEN fr["main"].result.docs ELSE <<>>
     IN verify' = [verify EXCEPT
                     !.todo = Tail(@),
                     !.results = Append(@, verify_result(skill, matches)),
                     !.lookups = Append(@, [skill |-> skill, returned |-> returned,
                                            docs |-> matches])]
  /\ fr' = [fr EXCEPT !["main"] = NoFrame]
  /\ pc' = [pc EXCEPT !["main"] = "verify_loop"]
  /\ UNCHANGED <<inputVars, prepVars, loop_current, ready, store, task_out, gathered,
                 extracted, heuristics, verified, final_report, exc, response, stage_log>>

\* analyzer.py 280, 202-203, 252-253: generate_report is called
ReportStart ==
  /\ At("main", "report")
  /\ stage_log' = Append(stage_log, "synthesis")
  /\ IF ~an_client
     THEN /\ exc' = Raised(<<"Gemini Client not initialized.">>, "report")
          /\ pc' = [pc EXCEPT !["main"] = "finally"]
          /\ fr' = fr
     ELSE /\ fr' = [fr EXCEPT !["main"] = NewFrame("generate_report", "")]
          /\ pc' = [pc EXCEPT !["main"] = "report_call"]
          /\ exc' = exc
  /\ UNCHANGED <<inputVars, prepVars, loop_current, ready, store, task_out, gathered,
                 extracted, heuristics, verify, verified, final_report, response>>

\* analyzer.py 261-264, 282: the parsed report, or the error re-raised
ReportFinish ==
  /\ At("main", "report_call")
  /\ fr["main"].status \in {"returned", "raised"}
  /\ IF fr["main"].status = "returned" /\ fr["main"].result.kind # "bad"
     THEN /\ final_report' = fr["main"].result
          /\ exc' = exc
     ELSE /\ exc' = Raised(<<IF fr["main"].status = "raised" THEN fr["main"].err
                             ELSE "JSONDecodeError">>, "report")
          /\ final_report' = final_report
  /\ fr' = [fr EXCEPT !["main"] = NoFrame]
  /\ pc' = [pc EXCEPT !["main"] = "finally"]
  /\ UNCHANGED <<inputVars, prepVars, loop_current, ready, store, task_out, gathered,
                 extracted, heuristics, verify, verified, response, stage_log>>

\* main.py 70-72, gui_app.py 78-80, vector_store.py 69-70: the finally clause;
\* an exception raised in it would replace the outcome of the try block
Cleanup ==
  /\ At("main", "finally")
  /\ IF DeleteRaises(store, collection_name)
     THEN /\ exc' = Raised(<<"Collection ", collection_name, " does not exist.">>,
                           "cleanup")
          /\ store' = store
     ELSE /\ store' = delete_collection(store, collection_name)
          /\ exc' = exc
  /\ pc' = [pc EXCEPT !["main"] = "respond"]
  /\ UNCHANGED <<inputVars, prepVars, fr, loop_current, ready, task_out, gathered,
                 extracted, heuristics, verify, verified, final_report, response,
                 stage_log>>

\* main.py 26-32: the return value goes through response_model =
\* AnalysisResponse: it is validated against the four fields and serialised
\* from them, keys outside the model dropped
response_model(report) ==
  CASE report.kind = "json" -> [valid |-> TRUE, body |-> report]
    [] report.kind = "extra" -> [valid |-> TRUE, body |-> SomeJson]
    [] OTHER -> [valid |-> FALSE, body |-> NoValue]

\* main.py 32, 68, 74-77 and gui_app.py 20, 36-40: what the handler answers;
\* finished is a pyqtSignal(dict), whose emit raises TypeError on a non-dict
ResponseOf(m, e, report) ==
  IF m = "web"
  THEN IF e.raised
       THEN [sent |-> TRUE, status |-> "500", detail |-> e.msg, body |-> NoValue]
       ELSE IF response_model(report).valid
       THEN [sent |-> TRUE, status |-> "200", detail |-> <<>>,
             body |-> response_model(report).body]
       ELSE [sent |-> TRUE, status |-> "500", detail |-> <<"Internal Server Error">>,
             body |-> NoValue]
  ELSE IF e.raised
       THEN [sent |-> TRUE, status |-> "error", detail |-> e.msg, body |-> NoValue]
       ELSE IF report.kind = "nondict"
       THEN [sent |-> TRUE, status |-> "error",
             detail |-> <<"TypeError: finished.emit(): argument 1 has unexpected type">>,
             body |-> NoValue]
       ELSE [sent |-> TRUE, status |-> "finished", detail |-> <<>>, body |-> report]

Respond ==
  /\ At("main", "respond")
  /\ response' = ResponseOf(mode, exc, final_report)
  /\ pc' = [pc EXCEPT !["main"] = "done"]
  /\ loop_current' = "idle"
  /\ UNCHANGED <<inputVars, prepVars, fr, ready, store, task_out, gathered, extracted,
                 heuristics, verify, verified, final_report, exc, stage_log>>

Next ==
  \/ Prepare
  \/ CreateCollection
  \/ AddDocuments
  \/ AnalyzeStart
  \/ Dispatch
  \/ \E t \in Children : TaskStart(t)
  \/ \E t \in Tasks : HelperCall(t)
  \/ \E t \in Tasks : HelperWake(t)
  \/ \E t \in Children : TaskFinish(t)
  \/ GatherResume
  \/ \E phase \in {"hard", "soft"} : VerifyBegin(phase)
  \/ VerifyNext
  \/ VerifyRecord
  \/ ReportStart
  \/ ReportFinish
  \/ Cleanup
  \/ Respond

Spec == Init /\ [][Next]_vars

\* ------------------------------------------- the retry helper on its own
\* _call_gemini_with_retry has just been entered by one of its callers, for
\* one of the four functions it wraps; a lookup has a collection to query
InitRetry ==
  /\ call = NoCall
  /\ ret = NoRet
  /\ mode = "none"
  /\ file = Pdf(TRUE, <<>>)
  /\ vs_client = TRUE
  /\ an_client = TRUE
  /\ pc = [t \in Tasks |-> "none"]
  /\ \E t \in Tasks :
       \E func \in {"extract_skills", "analyze_recruiter_heuristics",
                    "generate_report", "query_similar"} :
         \E arg \in (IF func = "query_similar" THEN Skills ELSE {""}) :
           /\ fr = [u \in Tasks |-> IF u = t THEN NewFrame(func, arg) ELSE NoFrame]
           /\ loop_current = t
  /\ ready = <<>>
  /\ chunks \in {<<<<"a">>>>, <<<<"a", NL, "b">>>>}
  /\ meta = [raw_text |-> <<>>, page_count |-> 0]
  /\ collection_name \in Names
  /\ store = [n \in Names |-> IF n = collection_name
                               THEN [exists |-> TRUE, docs |-> chunks,
                                     ids |-> ChunkIds(chunks)]
                               ELSE NoCollection]
  /\ embedded = Len(chunks)
  /\ task_out = [t \in Children |-> Pending]
  /\ gathered = Pending
  /\ extracted = NoValue
  /\ heuristics = NoValue
  /\ verify = NoVerify
  /\ verified = [hard |-> <<>>, soft |-> <<>>]
  /\ final_report = NoValue
  /\ exc = NoExc
  /\ response = NoResponse
  /\ stage_log = <<>>
  /\ reqs = NoRequests
  /\ gui = NewWindow

NextRetry ==
  \/ \E t \in Tasks : HelperCall(t)
  \/ \E t \in Tasks : HelperWake(t)

\* the helper runs on a thread that keeps running: a call of the wrapped
\* function returns or raises, and time.sleep returns
FairRetry ==
  /\ InitRetry
  /\ [][NextRetry]_vars
  /\ \A t \in Tasks : WF_vars(HelperCall(t)) /\ WF_vars(HelperWake(t))

\* ------------------------------- two /analyze requests, one chroma client
\* every VectorStore() wraps the process-wide in-memory chroma system, so the
\* collections of all requests live side by side in `store`
Passages == {<<"a">>, <<"b">>}
Resumes == UNION {[1..k -> Passages] : k \in 1..MaxDocs}

\* main.py 45-48: a request that reaches the vector store has chunks
NewRequest(cs) ==
  [pc |-> "create", chunks |-> cs, collection_name |-> "", lookups |-> {}]

InitRequests ==
  /\ call = NoCall
  /\ ret = NoRet
  /\ mode = "web"
  /\ file = Pdf(TRUE, <<>>)
  /\ vs_client = TRUE
  /\ an_client = TRUE
  /\ loop_current = "idle"
  /\ RequestIdle
  /\ reqs \in [Requests -> {NewRequest(cs) : cs \in Resumes}]
  /\ gui = NewWindow

\* main.py 58-59, vector_store.py 48-60: create_collection_from_chunks of
\* request r, under a uuid4 name no request has drawn before; when
\* collection.add raises, the request ends with the collection left behind
RequestCreate(r) ==
  /\ reqs[r].pc = "create"
  /\ \E n \in Names :
       /\ ~store[n].exists
       /\ \A q \in Requests : reqs[q].collection_name # n
       /\ \E o \in {"ok", OtherError} :
            IF o = "ok"
            THEN /\ store' = collection_add(create_collection(store, n), n,
                                            reqs[r].chunks, ChunkIds(reqs[r].chunks))
                 /\ reqs' = [reqs EXCEPT ![r].pc = "analyze", ![r].collection_name = n]
            ELSE /\ store' = create_collection(store, n)
                 /\ reqs' = [reqs EXCEPT ![r].pc = "done", ![r].collection_name = n]
  /\ UNCHANGED <<pipelineVars, gui>>

\* analyzer.py 84-89, vector_store.py 62-67: a lookup of verify_skills on the
\* collection the request was handed by create_collection_from_chunks
RequestLookup(r) ==
  /\ reqs[r].pc = "analyze"
  /\ LET c == store[reqs[r].collection_name]
     IN \E skill \in Skills :
          IF c.exists
          THEN \E v \in query_similar(c, skill, 1) :
                 reqs' = [reqs EXCEPT ![r].lookups =
                            @ \cup {[returned |-> TRUE, docs |-> v.docs]}]
          ELSE reqs' = [reqs EXCEPT ![r].lookups =
                          @ \cup {[returned |-> FALSE, docs |-> <<>>]}]
  /\ UNCHANGED <<pipelineVars, store, gui>>

\* main.py 66-70: analyze returns or raises, the finally clause is entered
RequestAnalysed(r) ==
  /\ reqs[r].pc = "analyze"
  /\ reqs' = [reqs EXCEPT ![r].pc = "finally"]
  /\ UNCHANGED <<pipelineVars, store, gui>>

\* main.py 70-72, vector_store.py 69-70: the request deletes its collection
RequestCleanup(r) ==
  /\ reqs[r].pc = "finally"
  /\ store' = IF DeleteRaises(store, reqs[r].collection_name) THEN store
              ELSE delete_collection(store, reqs[r].collection_name)
  /\ reqs' = [reqs EXCEPT ![r].pc = "done"]
  /\ UNCHANGED <<pipelineVars, gui>>

\* the requests are coroutines of one event loop: any interleaving of their
\* steps covers every schedule of the loop, the sequential ones included
NextRequests ==
  \/ \E r \in Requests : RequestCreate(r)
  \/ \E r \in Requests : RequestLookup(r)
  \/ \E r \in Requests : RequestAnalysed(r)
  \/ \E r \in Requests : RequestCleanup(r)

SpecRequests == InitRequests /\ [][NextRequests]_vars

\* --------------------------- create_collection_from_chunks on any chunk list
\* the handler is about to call create_collection_from_chunks (main.py 58-59,
\* gui_app.py 68-69) with a non-empty chunk list; the chroma system may hold
\* the collection of another request
InitCreate ==
  /\ call = NoCall
  /\ ret = NoRet
  /\ mode \in {"web", "gui"}
  /\ file = Pdf(TRUE, <<>>)
  /\ vs_client \in BOOLEAN
  /\ an_client = TRUE
  /\ pc = [t \in Tasks |-> IF t = "main" THEN "create" ELSE "none"]
  /\ fr = [t \in Tasks |-> NoFrame]
  /\ loop_current = "main"
  /\ ready = <<>>
  /\ chunks \in Resumes
  /\ meta = [raw_text |-> Concat(chunks), page_count |-> 1]
  /\ \E held \in {{}} \cup {{n} : n \in Names} :
       store = [n \in Names |->
                  IF n \in held
                  THEN [exists |-> TRUE, docs |-> << <<"b">> >>,
                        ids |-> ChunkIds(<< <<"b">> >>)]
                  ELSE NoCollection]
  /\ collection_name = ""
  /\ embedded = 0
  /\ task_out = [t \in Children |-> Pending]
  /\ gathered = Pending
  /\ extracted = NoValue
  /\ heuristics = NoValue
  /\ verify = NoVerify
  /\ verified = [hard |-> <<>>, soft |-> <<>>]
  /\ final_report = NoValue
  /\ exc = NoExc
  /\ response = NoResponse
  /\ stage_log = <<>>
  /\ reqs = NoRequests
  /\ gui = NewWindow

NextCreate == CreateCollection \/ AddDocuments

SpecCreate == InitCreate /\ [][NextCreate]_vars

\* ------------------------------------------------ gui_app.py: the main window
\* the window has just been shown; no request of the other front ends runs
InitGui ==
  /\ call = NoCall
  /\ ret = NoRet
  /\ mode = "gui"
  /\ file = Pdf(TRUE, <<>>)
  /\ vs_client = TRUE
  /\ an_client = TRUE
  /\ loop_current = "idle"
  /\ RequestIdle
  /\ reqs = NoRequests
  /\ gui = NewWindow

\* gui_app.py 339-347: the file dialog returns a path, or "" when cancelled;
\* a click reaches the slot only while the button is enabled
SelectFile ==
  /\ gui.select_btn
  /\ \E chosen \in BOOLEAN :
       gui' = [gui EXCEPT !.pdf_path = IF chosen THEN TRUE ELSE @]
  /\ UNCHANGED <<pipelineVars, store, reqs>>

\* gui_app.py 155, 354: the user edits the job description; jd_text says
\* whether toPlainText().strip() is non-empty
EditJobDescription ==
  /\ gui' = [gui EXCEPT !.jd_text = ~@]
  /\ UNCHANGED <<pipelineVars, store, reqs>>

\* gui_app.py 349-367: the slot of analyze_btn.clicked
start_analysis ==
  /\ gui.analyze_btn
  /\ IF ~gui.pdf_path
     THEN gui' = [gui EXCEPT !.message = "No File"]
     ELSE IF ~gui.jd_text
     THEN gui' = [gui EXCEPT !.message = "No Job Description"]
     ELSE \E k \in Runs :
            /\ gui.thread[k] = "none"
            /\ \A j \in Runs : j < k => gui.thread[j] # "none"
            /\ gui' = [gui EXCEPT !.analyze_btn = FALSE, !.select_btn = FALSE,
                                  !.progress_bar = TRUE, !.worker = k,
                                  !.thread[k] = "running"]
  /\ UNCHANGED <<pipelineVars, store, reqs>>

\* gui_app.py 28-37, 39-40: the worker thread runs perform_analysis and emits
\* finished with the result, or error with the message of whatever was
\* raised (by the analysis, by the event-loop setup, or by finished.emit on
\* a result that is not a dict); the signal is queued to the main thread
WorkerRun(k) ==
  /\ gui.thread[k] = "running"
  /\ \E sig \in {"finished", "error"} :
       gui' = [gui EXCEPT !.thread[k] = "emitted",
                          !.emitted[k] = Append(@, sig),
                          !.events = Append(@, [run |-> k, sig |-> sig])]
  /\ UNCHANGED <<pipelineVars, store, reqs>>

\* gui_app.py 38, 40: after the emit the thread closes its loop and returns
\* from run
WorkerExit(k) ==
  /\ gui.thread[k] = "emitted"
  /\ gui' = [gui EXCEPT !.thread[k] = "exited"]
  /\ UNCHANGED <<pipelineVars, store, reqs>>

\* gui_app.py 369-372: the main thread delivers a queued finished signal
display_results ==
  /\ gui.events # <<>>
  /\ Head(gui.events).sig = "finished"
  /\ gui' = [gui EXCEPT !.events = Tail(@), !.progress_bar = FALSE,
                        !.analyze_btn = TRUE, !.select_btn = TRUE]
  /\ UNCHANGED <<pipelineVars, store, reqs>>

\* gui_app.py 490-495: the main thread delivers a queued error signal
handle_error ==
  /\ gui.events # <<>>
  /\ Head(gui.events).sig = "error"
  /\ gui' = [gui EXCEPT !.events = Tail(@), !.progress_bar = FALSE,
                        !.analyze_btn = TRUE, !.select_btn = TRUE,
                        !.message = "Error"]
  /\ UNCHANGED <<pipelineVars, store, reqs>>

NextGui ==
  \/ SelectFile
  \/ EditJobDescription
  \/ start_analysis
  \/ \E k \in Runs : WorkerRun(k)
  \/ \E k \in Runs : WorkerExit(k)
  \/ display_results
  \/ handle_error

SpecGui == InitGui /\ [][NextGui]_vars

\* ------------------------------------------------ claims on the text functions
Last(s) == s[Len(s)]

\* C7: chunk_text(text, chunk_size), chunk_size >= 1, loses nothing: the chunks
\* concatenated in order are the text, every chunk but the last has exactly
\* chunk_size characters, the last has 1..chunk_size, there are
\* ceil(len(text)/chunk_size) chunks, and no chunk is empty (the empty text
\* gives the empty list).
C7_ChunkLossless ==
  (call.fn = "chunk_text" /\ ret.done) =>
    LET cs == ret.chunks
        t == call.text
        n == call.chunk_size
    IN /\ Concat(cs) = t
       /\ \A i \in 1..(Len(cs) - 1) : Len(cs[i]) = n
       /\ cs # <<>> => Len(Last(cs)) \in 1..n
       /\ Len(cs) = (Len(t) + n - 1) \div n
       /\ t = <<>> => cs = <<>>
       /\ \A i \in 1..Len(cs) : cs[i] # <<>>

C7_Witness ==
  /\ call.fn = "chunk_text" /\ ret.done
  /\ Len(ret.chunks) >= 2
  /\ Len(Last(ret.chunks)) < call.chunk_size

\* C8: the output of clean_text is ASCII only, every line of it starts and
\* ends with a non-whitespace character (so no line is empty or blank), and
\* the ASCII non-whitespace characters of the input are the non-whitespace
\* characters of the output, in the same order.
C8_CleanText ==
  (call.fn = "clean_text" /\ ret.done) =>
    LET out == ret.text
        n == Len(out)
    IN /\ \A i \in 1..n : IsAscii(out[i])
       /\ n > 0 => ~IsSpace(out[1]) /\ ~IsSpace(out[n])
       /\ \A i \in 1..n : out[i] = NL =>
             /\ 1 < i /\ i < n
             /\ ~IsSpace(out[i - 1]) /\ ~IsSpace(out[i + 1])
       /\ Filter(out, {c \in Alphabet : ~IsSpace(c)})
            = Filter(call.text, {c \in Alphabet : IsAscii(c) /\ ~IsSpace(c)})

C8_Witness ==
  /\ call.fn = "clean_text" /\ ret.done
  /\ \E i \in 1..Len(ret.text) : ret.text[i] = NL
  /\ Len(ret.text) < Len(call.text)

\* offset of page i in the extracted text
RECURSIVE PageOffset(_, _)
PageOffset(pages, i) ==
  IF i <= 1 THEN 0 ELSE PageOffset(pages, i - 1) + Len(pages[i - 1].text) + 1

\* C9 as stated: for a document that opens, the call returns the number of
\* pages and the concatenation of the page texts, a page without extractable
\* text adding nothing and causing no error.
C9_Original ==
  (call.fn = "extract_text_from_pdf" /\ ret.done /\ call.pdf.readable) =>
    /\ ret.pdf.ok
    /\ ret.pdf.page_count = Len(call.pdf.pages)
    /\ ret.pdf.text = PagesTextNoSep(call.pdf.pages)

\* C9 amended: page_count is the number of pages and the text is the text of
\* each page followed by a newline, in page order; a page whose extracted text
\* is empty adds only that newline, causes no error and is counted; the call
\* raises ValueError exactly when the document does not open or the extraction
\* of some page raises.
C9_Extract ==
  (call.fn = "extract_text_from_pdf" /\ ret.done) =>
    LET ps == call.pdf.pages
        r == ret.pdf
    IN IF call.pdf.readable /\ \A i \in 1..Len(ps) : ps[i].ok
       THEN /\ r.ok
            /\ r.page_count = Len(ps)
            /\ Len(r.text) = PageOffset(ps, Len(ps) + 1)
            /\ \A i \in 1..Len(ps) :
                 LET o == PageOffset(ps, i)
                 IN /\ SubSeq(r.text, o + 1, o + Len(ps[i].text)) = ps[i].text
                    /\ r.text[o + Len(ps[i].text) + 1] = NL
       ELSE ~r.ok /\ r.error = "Error reading PDF"

C9_Witness ==
  /\ call.fn = "extract_text_from_pdf" /\ ret.done /\ ret.pdf.ok
  /\ Len(call.pdf.pages) = 2
  /\ call.pdf.pages[1].text = <<>>
  /\ call.pdf.pages[2].text # <<>>
  /\ ret.pdf.page_count = 2

\* ----------------------------------------------- claims on the request pipeline
\* C1 as stated: once the request has completed, no collection created for it
\* exists, whatever the outcome.
C1_CollectionDeleted ==
  pc["main"] = "done" => \A n \in Names : ~store[n].exists

Finished(f) == f.status \in {"returned", "raised"}

RECURSIVE SumSeq(_)
SumSeq(s) == IF s = <<>> THEN 0 ELSE Head(s) + SumSeq(Tail(s))

Count(s, e) == Cardinality({i \in 1..Len(s) : s[i] = e})

\* C2: one call of the retry helper invokes the wrapped function at most 4
\* times; nothing is invoked after a success, whose result is what the helper
\* returns; 4 retryable failures make it raise the last of them; and a call
\* that has started always ends (returns or raises).
C2_Safe ==
  \A t \in Tasks :
    LET f == fr[t]
        n == Len(f.outs)
    IN /\ n <= 4
       /\ \A i \in 1..(n - 1) : f.outs[i] # "ok"
       /\ f.status = "returned" =>
             /\ f.outs[n] = "ok"
             /\ f.result # NoValue
             /\ f.result \in ResultsOf(f)
       /\ (n > 0 /\ f.outs[n] = "ok") => f.status = "returned"
       /\ (n = 4 /\ f.outs[n] \in Retryable) => f.status = "raised" /\ f.err = f.outs[n]
       /\ (f.status = "raised" /\ f.err \in Retryable) => n = 4 /\ f.err = f.outs[n]

InProgress(f) == f.status \in {"calling", "sleeping"}

\* C2: every state satisfies C2_Safe (at most 4 invocations, none after a
\* success, the last retryable error raised after 4 failures) and a call of
\* the helper that is in progress always ends: it returns or raises.
C2_RetryTerminates ==
  /\ []C2_Safe
  /\ (\E t \in Tasks : InProgress(fr[t])) ~> (\A t \in Tasks : ~InProgress(fr[t]))

C2_Witness ==
  \E t \in Tasks :
    /\ fr[t].status = "raised"
    /\ fr[t].outs = <<ResourceExhausted, ServiceUnavailable, ResourceExhausted,
                      ServiceUnavailable>>

\* C3: the helper retries only after ResourceExhausted or ServiceUnavailable:
\* any other exception ends the call at once, re-raised, with no attempt and
\* no wait after it.
C3_OnlyTwoTypes ==
  \A t \in Tasks :
    LET f == fr[t]
        n == Len(f.outs)
    IN /\ \A i \in 1..(n - 1) : f.outs[i] \in Retryable
       /\ f.status = "sleeping" => f.outs[n] \in Retryable
       /\ (n > 0 /\ f.outs[n] = OtherError) =>
             /\ f.status = "raised"
             /\ f.err = OtherError
             /\ Len(f.waits) = n - 1

C3_Witness ==
  \E t \in Tasks :
    /\ fr[t].status = "raised"
    /\ fr[t].outs = <<ServiceUnavailable, OtherError>>
    /\ fr[t].waits = <<2>>

\* C4: the waits of one call are 2, 4, 8 seconds in that order, one after each
\* retryable failure that is followed by another attempt and none after the
\* last attempt, so at most 14 seconds in all.
C4_Backoff ==
  \A t \in Tasks :
    LET f == fr[t]
        w == f.waits
    IN /\ Len(w) <= 3
       /\ \A k \in 1..Len(w) : w[k] = 2 ^ k
       /\ SumSeq(w) <= 14
       /\ f.status \in {"calling", "sleeping"} => Len(w) = Len(f.outs)
       /\ Finished(f) => Len(w) = Len(f.outs) - 1

C4_Witness ==
  \E t \in Tasks :
    /\ fr[t].status = "raised"
    /\ Len(fr[t].outs) = 4
    /\ fr[t].waits = <<2, 4, 8>>

Rank(e) ==
  CASE e \in Children -> 1
    [] e = "hard" -> 2
    [] e = "soft" -> 3
    [] e = "synthesis" -> 4

\* C5: the stages of analyze happen in a fixed order: both gathered calls
\* have ended before the first lookup, every hard-skill lookup precedes every
\* soft-skill lookup, generate_report is called at most once, only after every
\* lookup of both lists has been recorded, exactly once when analyze returns,
\* and never when an earlier stage raised.
C5_StageOrder ==
  /\ \A i, j \in 1..Len(stage_log) : i < j => Rank(stage_log[i]) <= Rank(stage_log[j])
  /\ (\E i \in 1..Len(stage_log) : Rank(stage_log[i]) >= 2) =>
        /\ \A t \in Children : Count(stage_log, t) = 1 /\ pc[t] = "done"
  /\ Count(stage_log, "synthesis") <= 1
  /\ Count(stage_log, "synthesis") = 1 =>
        /\ Count(stage_log, "hard") = Len(extracted.hard_skills)
        /\ Count(stage_log, "soft") = Len(extracted.soft_skills)
        /\ Len(verified.hard) = Len(extracted.hard_skills)
        /\ Len(verified.soft) = Len(extracted.soft_skills)
        /\ fr["main"].func # "query_similar"
  /\ (response.sent /\ response.status \in {"200", "finished"}) =>
        Count(stage_log, "synthesis") = 1
  /\ (exc.raised /\ exc.stage # "report") => Count(stage_log, "synthesis") = 0

C5_Witness ==
  /\ response.sent /\ response.status = "200"
  /\ stage_log = <<"extract", "heur", "hard", "soft", "synthesis">>

\* C6 as stated: the two gathered calls overlap: while one of them waits in
\* its retry backoff, the event loop is free to start the other.
C6_Overlap ==
  \A t \in Children :
    (fr[t].status = "sleeping" /\ \E u \in Children : pc[u] = "start") =>
      ENABLED Dispatch

InPhase(ph) == verify.phase = ph /\ pc["main"] \in {"verify_loop", "verify_query"}

\* C10: verify_skills reports the skills of its list in order, one result
\* and one lookup (n_results = 1, against the request's collection) per skill,
\* duplicates included; found holds exactly when the lookup returned a
\* passage, and the evidence is then the first passage returned.
C10_VerifySkills ==
  \A ph \in {"hard", "soft"} :
    /\ InPhase(ph) =>
         LET skills == SkillsOf(ph)
             rs == verify.results
             ls == verify.lookups
         IN /\ Len(rs) + Len(verify.todo) = Len(skills)
            /\ Len(ls) = Len(rs)
            /\ Count(stage_log, ph)
                 = Len(rs) + (IF pc["main"] = "verify_query" THEN 1 ELSE 0)
            /\ \A i \in 1..Len(rs) :
                 /\ rs[i].skill = skills[i]
                 /\ ls[i].skill = skills[i]
                 /\ Len(ls[i].docs) <= 1
                 /\ \A k \in 1..Len(ls[i].docs) :
                      \E d \in 1..Len(chunks) : ls[i].docs[k] = chunks[d]
                 /\ rs[i].found = (ls[i].returned /\ ls[i].docs # <<>>)
                 /\ rs[i].found => rs[i].evidence = ls[i].docs[1]
    /\ Count(stage_log, "synthesis") = 1 \/ (ph = "hard" /\ verify.phase = "soft") =>
         /\ Len(verified[ph]) = Len(SkillsOf(ph))
         /\ Count(stage_log, ph) = Len(SkillsOf(ph))
         /\ \A i \in 1..Len(verified[ph]) : verified[ph][i].skill = SkillsOf(ph)[i]

C10_Witness ==
  /\ Count(stage_log, "synthesis") = 1
  /\ Len(verified.hard) = 2
  /\ verified.hard[1].skill = verified.hard[2].skill
  /\ verified.hard[1].found /\ verified.hard[1].evidence # <<>>
  /\ ~verified.hard[2].found

\* ------------------------------------------------ claims on the vector store
Live(r) == reqs[r].pc \in {"analyze", "finally"}

\* C11: collections are per-request: two requests that have drawn a name
\* have drawn different names; every lookup of a request is answered from
\* its own collection, with passages of its own resume only; and whatever
\* the other request has created or deleted meanwhile, the collection of a
\* live request exists and holds exactly that request's chunks.
C11_PerRequest ==
  /\ \A r, q \in Requests :
        (r # q /\ reqs[r].collection_name # "" /\ reqs[q].collection_name # "") =>
          reqs[r].collection_name # reqs[q].collection_name
  /\ \A r \in Requests :
        \A l \in reqs[r].lookups :
          /\ l.returned
          /\ \A k \in 1..Len(l.docs) :
               \E i \in 1..Len(reqs[r].chunks) : l.docs[k] = reqs[r].chunks[i]
  /\ \A r \in Requests :
        Live(r) =>
          store[reqs[r].collection_name] =
            [exists |-> TRUE, docs |-> reqs[r].chunks, ids |-> ChunkIds(reqs[r].chunks)]

C11_Witness ==
  /\ reqs[1].pc = "done" /\ reqs[1].collection_name # ""
  /\ ~store[reqs[1].collection_name].exists
  /\ reqs[1].chunks = << <<"a">> >> /\ reqs[1].lookups # {}
  /\ reqs[2].pc = "finally" /\ reqs[2].chunks = << <<"b">>, <<"b">> >>
  /\ reqs[2].lookups # {}

\* C12: once create_collection_from_chunks has returned, the collection
\* holds exactly len(chunks) documents, chunk i (counted from 0) under the id
\* id_i, the ids are pairwise distinct, and embed_content has been called
\* once per chunk; before that it has never been called more often.
C12_CreateFromChunks ==
  /\ embedded <= Len(chunks)
  /\ pc["main"] = "analyze" =>
       LET c == store[collection_name]
           n == Len(chunks)
       IN /\ c.exists
          /\ Len(c.docs) = n /\ Len(c.ids) = n
          /\ \A i \in 0..(n - 1) : c.docs[i + 1] = chunks[i + 1] /\ c.ids[i + 1] = IdOf(i)
          /\ \A i, j \in 1..n : i # j => c.ids[i] # c.ids[j]
          /\ embedded = n

C12_Witness ==
  /\ pc["main"] = "analyze"
  /\ Len(chunks) >= 2 /\ chunks[1] = chunks[2]
  /\ Len(store[collection_name].docs) = Len(chunks)
  /\ embedded = Len(chunks)
  /\ \E n \in Names : n # collection_name /\ store[n].exists

\* ------------------------------------------- claims on the request handlers
NoChunks ==
  LET r == extract_text_from_pdf(file)
  IN r.ok /\ chunk_text(clean_text(r.text), DefaultChunkSize) = <<>>

NothingStarted ==
  /\ \A n \in Names : ~store[n].exists
  /\ collection_name = "" /\ embedded = 0
  /\ stage_log = <<>>
  /\ \A t \in Tasks : fr[t] = NoFrame /\ pc[t] \in {"none", "done"}

\* C13 as stated: when the uploaded PDF yields no chunks, /analyze answers
\* with status 400 and detail "Could not extract text from PDF.", and the
\* request has created no collection and made no LLM call.
C13_EmptyPdf400 ==
  (mode = "web" /\ response.sent /\ NoChunks) =>
    /\ response.status = "400"
    /\ response.detail = <<"Could not extract text from PDF.">>
    /\ NothingStarted

\* C14: a lookup of verify_skills that raised, whatever the exception (retry
\* exhaustion included), does not abort the loop: its skill is reported with
\* found = false and the empty evidence, the skills after it are looked up
\* and reported in turn, and no exception leaves the loop, so that a report
\* that is synthesised covers every skill of both lists.
C14_LookupFailureContinues ==
  /\ \A ph \in {"hard", "soft"} :
       InPhase(ph) =>
         /\ Len(verify.results) + Len(verify.todo) = Len(SkillsOf(ph))
         /\ \A i \in 1..Len(verify.lookups) :
              ~verify.lookups[i].returned =>
                verify.results[i] =
                  [skill |-> SkillsOf(ph)[i], found |-> FALSE, evidence |-> <<>>]
  /\ (exc.raised /\ exc.stage = "verify") => extracted.kind = "nondict"
  /\ Count(stage_log, "synthesis") = 1 =>
       /\ Len(verified.hard) = Len(extracted.hard_skills)
       /\ Len(verified.soft) = Len(extracted.soft_skills)

\* the lookup of the first skill raised and was reported not found, and the
\* second skill has been looked up all the same, up to retry exhaustion
C14_Witness ==
  /\ InPhase("hard")
  /\ Len(verify.results) = 1
  /\ ~verify.lookups[1].returned
  /\ ~verify.results[1].found /\ verify.results[1].evidence = <<>>
  /\ pc["main"] = "verify_query"
  /\ fr["main"].func = "query_similar" /\ fr["main"].arg = verify.todo[1]
  /\ fr["main"].status = "raised" /\ Len(fr["main"].outs) = 4

AnalysisEnded ==
  /\ pc["main"] \in {"finally", "respond", "done"}
  /\ ~(exc.raised /\ exc.stage \in {"prepare", "create"})

\* C15 as stated: with the LLM client initialized, whatever the
\* skill-extraction and heuristic-critique calls did, neither of the two
\* gathered calls raises, analyze reaches final synthesis, and an exception
\* that leaves analyze is a failure of final synthesis.
C15_OnlySynthesisFails ==
  (an_client /\ AnalysisEnded) =>
    /\ \A t \in Children : task_out[t].state = "result"
    /\ Count(stage_log, "synthesis") = 1
    /\ exc.raised => exc.stage = "report"

AnalysisError == exc.raised /\ exc.stage \in {"gather", "verify", "report"}

\* C16 as stated: if analyze returns a report the endpoint answers 200 with
\* that report unchanged, and if analyze raises it answers 500 whose detail
\* is the message of the analysis error.
C16_Original ==
  (mode = "web" /\ response.sent /\ AnalysisEnded) =>
    IF exc.raised
    THEN response.status = "500" /\ response.detail = exc.msg
    ELSE response.status = "200" /\ response.body = final_report

C16_Answer ==
  (mode = "web" /\ response.sent /\ AnalysisEnded) =>
    /\ ~store[collection_name].exists
    /\ IF exc.raised
       THEN AnalysisError /\ response.status = "500" /\ response.detail = exc.msg
       ELSE CASE final_report.kind = "json" ->
                   response.status = "200" /\ response.body = final_report
              [] final_report.kind = "extra" ->
                   response.status = "200" /\ response.body = SomeJson
              [] OTHER ->
                   response.status = "500" /\ response.body = NoValue

\* C16 amended: the finally clause never changes the outcome of analyze:
\* delete_collection does not raise, and the exception or the report analyze
\* ended with is the one the endpoint answers from. If analyze raised, the
\* answer is 500 with the message of that error as detail. If analyze
\* returned a report, the answer is 200 only when the report satisfies
\* AnalysisResponse, and its body is the report reduced to the four fields of
\* that model (unchanged when it has no other key); a report that does not
\* satisfy the model is answered with 500.
C16_OutcomeFromAnalysis ==
  /\ []C16_Answer
  /\ [][Cleanup => (exc' = exc /\ final_report' = final_report)]_vars

C16_Witness ==
  /\ mode = "web" /\ response.sent /\ ~exc.raised
  /\ final_report = ExtraJson
  /\ response.status = "200" /\ response.body = SomeJson
  /\ collection_name # "" /\ ~store[collection_name].exists

Verifying ==
  pc["main"] \in {"verify_hard", "verify_soft", "verify_loop", "verify_query"}

\* C17: the collection that verify_skills queries holds at least one
\* passage and no empty one, so within a request every skill whose lookup
\* returned is reported found = true with non-empty evidence, whatever the
\* skill, and found = false is reported only for a skill whose lookup raised.
C17_FoundUnlessRaised ==
  /\ Verifying =>
       /\ store[collection_name].exists
       /\ store[collection_name].docs # <<>>
       /\ \A d \in 1..Len(store[collection_name].docs) :
            store[collection_name].docs[d] # <<>>
  /\ \A ph \in {"hard", "soft"} :
       InPhase(ph) =>
         \A i \in 1..Len(verify.results) :
           /\ verify.lookups[i].returned =>
                verify.results[i].found /\ verify.results[i].evidence # <<>>
           /\ ~verify.results[i].found => ~verify.lookups[i].returned
  /\ \A ph \in {"hard", "soft"} :
       \A i \in 1..Len(verified[ph]) :
         verified[ph][i].found = (verified[ph][i].evidence # <<>>)

C17_Witness ==
  /\ InPhase("soft")
  /\ Len(verify.results) = 2
  /\ verify.results[1].skill # verify.results[2].skill
  /\ verify.lookups[1].returned /\ verify.lookups[2].returned
  /\ verify.results[1].found /\ verify.results[2].found
  /\ verify.results[1].evidence = verify.results[2].evidence

\* ------------------------------------------------ claims on the desktop GUI
InRun(k) == gui.thread[k] \in {"running", "emitted"}

\* C18 as stated: at most one AnalysisWorker runs at a time.
C18_OneWorker ==
  Cardinality({k \in Runs : InRun(k)}) <= 1

\* what holds of the buttons and the signals: every run emits at most one
\* signal, exactly one once it has left its try block; while a run has not
\* emitted or its signal is still queued, both buttons are disabled and no
\* other run is in that condition; otherwise both buttons are enabled
Awaited(k) ==
  \/ gui.thread[k] = "running"
  \/ \E i \in 1..Len(gui.events) : gui.events[i].run = k

GuiButtonsFollowSignals ==
  /\ \A k \in Runs :
       /\ Len(gui.emitted[k]) <= 1
       /\ gui.thread[k] \in {"emitted", "exited"} => Len(gui.emitted[k]) = 1
  /\ Cardinality({k \in Runs : Awaited(k)}) <= 1
  /\ (\E k \in Runs : Awaited(k)) = (~gui.analyze_btn /\ ~gui.select_btn)
  /\ (\A k \in Runs : ~Awaited(k)) = (gui.analyze_btn /\ gui.select_btn)

====
